---- MODULE Spec2Model ----
(***************************************************************************)
(* The Little Lemon restaurant back end: the User, MenuItem and Booking    *)
(* resources of restaurant/views.py, rendered and validated by the         *)
(* serializers of restaurant/serializers.py, behind the IsAuthenticated    *)
(* permission gate, over three relational tables.                          *)
(***************************************************************************)
EXTENDS Integers, Sequences, FiniteSets, TLC

VARIABLES
    users,       \* the User table: id -> [username, email, password]
    userSeq,     \* next primary key of the User table
    tokens,      \* ids of the users that hold an auth token (the key of user i is i)
    menu,        \* the MenuItem table: id -> [title, price, inventory]
    menuSeq,     \* next primary key of the MenuItem table
    bookings,    \* the Booking table: id -> [name, no_of_guests, booking_date]
    bookingSeq,  \* next primary key of the Booking table
    response,    \* the HTTP response to the last request served
    script,      \* the client script: its position, its locals, the calls it made
    inflight,    \* the partial updates in flight: request -> its position and locals
    settings     \* the settings of the deployment

vars == <<users, userSeq, tokens, menu, menuSeq, bookings, bookingSeq, response,
          script, inflight, settings>>

\* What no handler of the back end touches.
clientVars == <<script, inflight, settings>>

(***************************************************************************)
(* Bounds of the model: how many primary keys each table hands out.        *)
(***************************************************************************)
MaxUserId == 2
MaxMenuId == 2
MaxBookingId == 2

(***************************************************************************)
(* HTTP status codes.                                                      *)
(***************************************************************************)
HTTP_200_OK == 200
HTTP_201_CREATED == 201
HTTP_204_NO_CONTENT == 204
HTTP_400_BAD_REQUEST == 400
HTTP_401_UNAUTHORIZED == 401
HTTP_404_NOT_FOUND == 404

(***************************************************************************)
(* JSON values of a request or response body.  A number is the decimal     *)
(* digits * 10^(-scale); a string is a sequence of characters; Missing is  *)
(* a key that the body does not hold; Null is JSON null.                   *)
(***************************************************************************)
Missing == [type |-> "missing"]
Null == [type |-> "null"]
Str(s) == [type |-> "string", chars |-> s]
Num(d, s) == [type |-> "number", digits |-> d, scale |-> s]

RECURSIVE Pow10(_)
Pow10(n) == IF n <= 0 THEN 1 ELSE 10 * Pow10(n - 1)

\* Two JSON numbers denote the same decimal value.
SameNumber(a, b) ==
    /\ a.type = "number"
    /\ b.type = "number"
    /\ a.digits * Pow10(b.scale) = b.digits * Pow10(a.scale)

(***************************************************************************)
(* Serializer fields.                                                      *)
(***************************************************************************)
RECURSIVE LStrip(_)
LStrip(s) == IF s # <<>> /\ Head(s) = " " THEN LStrip(Tail(s)) ELSE s

RECURSIVE RStrip(_)
RStrip(s) ==
    IF s # <<>> /\ s[Len(s)] = " " THEN RStrip(SubSeq(s, 1, Len(s) - 1)) ELSE s

\* A mutant of Strip: the text is stored as sent.
StripNothing(s) == s

\* CharField.to_internal_value: surrounding whitespace is trimmed.
Strip(s) == RStrip(LStrip(s))

\* A text field (title, name, username): required, a string, not blank
\* after trimming.
CharFieldValid(v) == v.type = "string" /\ Strip(v.chars) # <<>>
CharFieldClean(v) == Strip(v.chars)

\* Decimal places kept by the price column.
DecimalPlaces == 2

\* The price field: a decimal of at most DecimalPlaces places, not negative;
\* stored as an integer count of 10^(-DecimalPlaces).
PriceValid(v) ==
    /\ v.type = "number"
    /\ v.scale <= DecimalPlaces
    /\ v.digits >= 0
PriceClean(v) == v.digits * Pow10(DecimalPlaces - v.scale)
PriceRender(p) == Num(p, DecimalPlaces)

\* The inventory field: an integer (a fraction of zeros is dropped), not
\* negative.
InventoryValid(v) ==
    /\ v.type = "number"
    /\ v.digits % Pow10(v.scale) = 0
    /\ v.digits >= 0
InventoryClean(v) == v.digits \div Pow10(v.scale)

(***************************************************************************)
(* Tables and responses.                                                   *)
(***************************************************************************)
EmptyTable == [i \in {} |-> <<>>]

\* Model.save(): the row is written under its primary key.
SaveRow(table, id, row) ==
    [i \in DOMAIN table \cup {id} |-> IF i = id THEN row ELSE table[i]]

\* A mutant of DeleteRow: the row is left in the table.
KeepRow(table, id) == table

\* Model.delete(): the row of the primary key is removed.
DeleteRow(table, id) == [i \in DOMAIN table \ {id} |-> table[i]]

\* The request's credentials: 0 is a request without credentials, k > 0 a
\* request carrying token key k.  Key MaxUserId + 1 is never issued: it is
\* the invalid token.
Credentials == {0, MaxUserId + 1} \cup tokens

\* A mutant of IsAuthenticated: every request is let through.
AllowAny(cred) == TRUE

\* permissions.IsAuthenticated: the request resolves to a user.
IsAuthenticated(cred) == cred \in tokens

Respond(op, id, cred, status, body) ==
    [op |-> op, id |-> id, auth |-> cred \in tokens, status |-> status, body |-> body]

NoResponse == [op |-> "none", id |-> 0, auth |-> FALSE, status |-> 0, body |-> <<>>]

(***************************************************************************)
(* MenuItemSerializer.                                                     *)
(***************************************************************************)
MenuItemColumns == {"title", "price", "inventory"}

\* A mutant of MenuItemSerializerFields: the title is not a serializer field.
MenuItemSerializerFieldsNoTitle == {"price", "inventory"}

\* Meta.fields of MenuItemSerializer.
MenuItemSerializerFields == {"title", "price", "inventory"}

MenuItemFieldValid(f, v) ==
    CASE f = "title" -> CharFieldValid(v)
      [] f = "price" -> PriceValid(v)
      [] f = "inventory" -> InventoryValid(v)

MenuItemFieldClean(f, v) ==
    CASE f = "title" -> CharFieldClean(v)
      [] f = "price" -> PriceClean(v)
      [] f = "inventory" -> InventoryClean(v)

MenuItemFieldRender(f, x) ==
    CASE f = "title" -> Str(x)
      [] f = "price" -> PriceRender(x)
      [] f = "inventory" -> Num(x, 0)

\* serializer.is_valid(): every field is required unless the update is
\* partial, and every field given must validate.
MenuItemSerializerIsValid(data, partial) ==
    \A f \in MenuItemSerializerFields :
        IF data[f].type = "missing" THEN partial ELSE MenuItemFieldValid(f, data[f])

\* The column values of a MenuItem that no field has set.
MenuItemDefaults == [title |-> <<>>, price |-> 0, inventory |-> 0]

\* A mutant of MenuItemSerializerSave: a field the request leaves out is
\* reset instead of kept.
MenuItemSerializerSaveReset(instance, data) ==
    [f \in MenuItemColumns |->
        IF f \in MenuItemSerializerFields /\ data[f].type # "missing"
        THEN MenuItemFieldClean(f, data[f])
        ELSE MenuItemDefaults[f]]

\* serializer.save(): the validated fields are written over the instance.
MenuItemSerializerSave(instance, data) ==
    [f \in MenuItemColumns |->
        IF f \in MenuItemSerializerFields /\ data[f].type # "missing"
        THEN MenuItemFieldClean(f, data[f])
        ELSE instance[f]]

\* serializer.data: the rendered representation of a row.
MenuItemSerializerData(row) ==
    [f \in MenuItemSerializerFields |-> MenuItemFieldRender(f, row[f])]

RECURSIVE MenuItemListFrom(_, _)
MenuItemListFrom(i, n) ==
    IF i > n THEN <<>>
    ELSE (IF i \in DOMAIN menu THEN <<MenuItemSerializerData(menu[i])>> ELSE <<>>)
            \o MenuItemListFrom(i + 1, n)

\* A mutant of MenuItemList: the newest row is left out.
MenuItemListButLast == MenuItemListFrom(1, menuSeq - 2)

\* MenuItem.objects.all(), rendered: the rows in primary-key order.
MenuItemList == MenuItemListFrom(1, menuSeq - 1)

\* The bound on the primary keys caps the open-ended streams of requests; a
\* run of the client script is finite by itself.
MenuKeyAvailable == menuSeq <= MaxMenuId \/ script.pc # "idle"

(***************************************************************************)
(* MenuItemView and SingleMenuItemView.  Neither declares permission       *)
(* classes: the request is served whoever sends it.                        *)
(***************************************************************************)
MenuItemViewList(cred) ==
    /\ response' = Respond("menu.list", 0, cred, HTTP_200_OK, MenuItemList)
    /\ UNCHANGED <<users, userSeq, tokens, menu, menuSeq, bookings, bookingSeq>>

\* A mutant of MenuItemViewCreate: the view asks for an authenticated caller.
MenuItemViewCreateAuthenticated(cred, data) ==
    IF ~IsAuthenticated(cred)
    THEN /\ response' = Respond("menu.create", 0, cred, HTTP_401_UNAUTHORIZED, <<>>)
         /\ UNCHANGED <<users, userSeq, tokens, menu, menuSeq, bookings, bookingSeq>>
    ELSE IF ~MenuItemSerializerIsValid(data, FALSE)
    THEN /\ response' = Respond("menu.create", 0, cred, HTTP_400_BAD_REQUEST, <<>>)
         /\ UNCHANGED <<users, userSeq, tokens, menu, menuSeq, bookings, bookingSeq>>
    ELSE /\ MenuKeyAvailable
         /\ LET row == MenuItemSerializerSave(MenuItemDefaults, data)
            IN /\ menu' = SaveRow(menu, menuSeq, row)
               /\ response' = Respond("menu.create", menuSeq, cred, HTTP_201_CREATED,
                                      <<MenuItemSerializerData(row)>>)
         /\ menuSeq' = menuSeq + 1
         /\ UNCHANGED <<users, userSeq, tokens, bookings, bookingSeq>>

MenuItemViewCreate(cred, data) ==
    IF ~MenuItemSerializerIsValid(data, FALSE)
    THEN /\ response' = Respond("menu.create", 0, cred, HTTP_400_BAD_REQUEST, <<>>)
         /\ UNCHANGED <<users, userSeq, tokens, menu, menuSeq, bookings, bookingSeq>>
    ELSE /\ MenuKeyAvailable
         /\ LET row == MenuItemSerializerSave(MenuItemDefaults, data)
            IN /\ menu' = SaveRow(menu, menuSeq, row)
               /\ response' = Respond("menu.create", menuSeq, cred, HTTP_201_CREATED,
                                      <<MenuItemSerializerData(row)>>)
         /\ menuSeq' = menuSeq + 1
         /\ UNCHANGED <<users, userSeq, tokens, bookings, bookingSeq>>

SingleMenuItemViewRetrieve(cred, id) ==
    /\ response' =
         IF id \in DOMAIN menu
         THEN Respond("menu.retrieve", id, cred, HTTP_200_OK,
                      <<MenuItemSerializerData(menu[id])>>)
         ELSE Respond("menu.retrieve", id, cred, HTTP_404_NOT_FOUND, <<>>)
    /\ UNCHANGED <<users, userSeq, tokens, menu, menuSeq, bookings, bookingSeq>>

\* A mutant of MenuItemGetObject: an update of an unknown id finds a fresh
\* instance, which the save then creates.
MenuItemGetOrCreate(id) == TRUE

\* get_object(): the row of the id exists (otherwise Http404).
MenuItemGetObject(id) == id \in DOMAIN menu

\* UpdateModelMixin.update: get_object, is_valid, save.
MenuItemUpdateModel(op, cred, id, data, partial) ==
    IF ~MenuItemGetObject(id)
    THEN /\ response' = Respond(op, id, cred, HTTP_404_NOT_FOUND, <<>>)
         /\ UNCHANGED <<users, userSeq, tokens, menu, menuSeq, bookings, bookingSeq>>
    ELSE IF ~MenuItemSerializerIsValid(data, partial)
    THEN /\ response' = Respond(op, id, cred, HTTP_400_BAD_REQUEST, <<>>)
         /\ UNCHANGED <<users, userSeq, tokens, menu, menuSeq, bookings, bookingSeq>>
    ELSE LET old == IF id \in DOMAIN menu THEN menu[id] ELSE MenuItemDefaults
             row == MenuItemSerializerSave(old, data)
         IN /\ menu' = SaveRow(menu, id, row)
            /\ response' = Respond(op, id, cred, HTTP_200_OK,
                                   <<MenuItemSerializerData(row)>>)
            /\ UNCHANGED <<users, userSeq, tokens, menuSeq, bookings, bookingSeq>>

SingleMenuItemViewUpdate(cred, id, data) ==
    MenuItemUpdateModel("menu.update", cred, id, data, FALSE)

SingleMenuItemViewPartialUpdate(cred, id, data) ==
    MenuItemUpdateModel("menu.partial_update", cred, id, data, TRUE)

SingleMenuItemViewDestroy(cred, id) ==
    IF ~MenuItemGetObject(id)
    THEN /\ response' = Respond("menu.destroy", id, cred, HTTP_404_NOT_FOUND, <<>>)
         /\ UNCHANGED <<users, userSeq, tokens, menu, menuSeq, bookings, bookingSeq>>
    ELSE /\ menu' = DeleteRow(menu, id)
         /\ response' = Respond("menu.destroy", id, cred, HTTP_204_NO_CONTENT, <<>>)
         /\ UNCHANGED <<users, userSeq, tokens, menuSeq, bookings, bookingSeq>>

(***************************************************************************)
(* BookingSerializer (fields = '__all__').                                 *)
(***************************************************************************)
BookingColumns == {"name", "no_of_guests", "booking_date"}

\* The writable fields that a full create or update must give.
BookingRequired == {"name", "no_of_guests"}

\* The number of guests: a positive integer.
GuestsValid(v) ==
    /\ v.type = "number"
    /\ v.digits % Pow10(v.scale) = 0
    /\ v.digits \div Pow10(v.scale) >= 1

\* The one well-formed ISO-8601 timestamp of the model.
IsoStamp == <<"2025-04-20T18:30:00Z">>

DateValid(v) == v.type = "string" /\ v.chars = IsoStamp

BookingFieldValid(f, v) ==
    CASE f = "name" -> CharFieldValid(v)
      [] f = "no_of_guests" -> GuestsValid(v)
      [] f = "booking_date" -> DateValid(v)

BookingFieldClean(f, v) ==
    CASE f = "name" -> CharFieldClean(v)
      [] f = "no_of_guests" -> InventoryClean(v)
      [] f = "booking_date" -> v.chars

BookingFieldRender(f, x) ==
    CASE f = "name" -> Str(x)
      [] f = "no_of_guests" -> Num(x, 0)
      [] f = "booking_date" -> IF x = <<>> THEN Null ELSE Str(x)

BookingSerializerIsValid(data, partial) ==
    \A f \in BookingColumns :
        IF data[f].type = "missing"
        THEN partial \/ f \notin BookingRequired
        ELSE BookingFieldValid(f, data[f])

BookingDefaults == [name |-> <<>>, no_of_guests |-> 0, booking_date |-> <<>>]

BookingSerializerSave(instance, data) ==
    [f \in BookingColumns |->
        IF data[f].type # "missing" THEN BookingFieldClean(f, data[f]) ELSE instance[f]]

\* serializer.data: every column of the row, the primary key included.
BookingSerializerData(id, row) ==
    [f \in BookingColumns \cup {"id"} |->
        IF f = "id" THEN Num(id, 0) ELSE BookingFieldRender(f, row[f])]

RECURSIVE BookingListFrom(_, _)
BookingListFrom(i, n) ==
    IF i > n THEN <<>>
    ELSE (IF i \in DOMAIN bookings THEN <<BookingSerializerData(i, bookings[i])>> ELSE <<>>)
            \o BookingListFrom(i + 1, n)

\* Booking.objects.all(), rendered: the rows in primary-key order.
BookingList == BookingListFrom(1, bookingSeq - 1)

(***************************************************************************)
(* BookingViewSet: permission_classes = [IsAuthenticated].  The permission *)
(* check runs before the handler; a request that fails it is answered 401. *)
(***************************************************************************)
BookingDenied(op, id, cred) ==
    /\ response' = Respond(op, id, cred, HTTP_401_UNAUTHORIZED, <<>>)
    /\ UNCHANGED <<users, userSeq, tokens, menu, menuSeq, bookings, bookingSeq>>

\* As MenuKeyAvailable, for the keys of the Booking table.
BookingKeyAvailable == bookingSeq <= MaxBookingId \/ script.pc # "idle"

BookingViewSetList(cred) ==
    IF ~IsAuthenticated(cred) THEN BookingDenied("booking.list", 0, cred)
    ELSE /\ response' = Respond("booking.list", 0, cred, HTTP_200_OK, BookingList)
         /\ UNCHANGED <<users, userSeq, tokens, menu, menuSeq, bookings, bookingSeq>>

BookingViewSetCreate(cred, data) ==
    IF ~IsAuthenticated(cred) THEN BookingDenied("booking.create", 0, cred)
    ELSE IF ~BookingSerializerIsValid(data, FALSE)
    THEN /\ response' = Respond("booking.create", 0, cred, HTTP_400_BAD_REQUEST, <<>>)
         /\ UNCHANGED <<users, userSeq, tokens, menu, menuSeq, bookings, bookingSeq>>
    ELSE /\ BookingKeyAvailable
         /\ LET row == BookingSerializerSave(BookingDefaults, data)
            IN /\ bookings' = SaveRow(bookings, bookingSeq, row)
               /\ response' = Respond("booking.create", bookingSeq, cred, HTTP_201_CREATED,
                                      <<BookingSerializerData(bookingSeq, row)>>)
         /\ bookingSeq' = bookingSeq + 1
         /\ UNCHANGED <<users, userSeq, tokens, menu, menuSeq>>

BookingViewSetRetrieve(cred, id) ==
    IF ~IsAuthenticated(cred) THEN BookingDenied("booking.retrieve", id, cred)
    ELSE /\ response' =
              IF id \in DOMAIN bookings
              THEN Respond("booking.retrieve", id, cred, HTTP_200_OK,
                           <<BookingSerializerData(id, bookings[id])>>)
              ELSE Respond("booking.retrieve", id, cred, HTTP_404_NOT_FOUND, <<>>)
         /\ UNCHANGED <<users, userSeq, tokens, menu, menuSeq, bookings, bookingSeq>>

BookingUpdateModel(op, cred, id, data, partial) ==
    IF ~IsAuthenticated(cred) THEN BookingDenied(op, id, cred)
    ELSE IF id \notin DOMAIN bookings
    THEN /\ response' = Respond(op, id, cred, HTTP_404_NOT_FOUND, <<>>)
         /\ UNCHANGED <<users, userSeq, tokens, menu, menuSeq, bookings, bookingSeq>>
    ELSE IF ~BookingSerializerIsValid(data, partial)
    THEN /\ response' = Respond(op, id, cred, HTTP_400_BAD_REQUEST, <<>>)
         /\ UNCHANGED <<users, userSeq, tokens, menu, menuSeq, bookings, bookingSeq>>
    ELSE LET row == BookingSerializerSave(bookings[id], data)
         IN /\ bookings' = SaveRow(bookings, id, row)
            /\ response' = Respond(op, id, cred, HTTP_200_OK,
                                   <<BookingSerializerData(id, row)>>)
            /\ UNCHANGED <<users, userSeq, tokens, menu, menuSeq, bookingSeq>>

BookingViewSetUpdate(cred, id, data) ==
    BookingUpdateModel("booking.update", cred, id, data, FALSE)

BookingViewSetPartialUpdate(cred, id, data) ==
    BookingUpdateModel("booking.partial_update", cred, id, data, TRUE)

BookingViewSetDestroy(cred, id) ==
    IF ~IsAuthenticated(cred) THEN BookingDenied("booking.destroy", id, cred)
    ELSE IF id \notin DOMAIN bookings
    THEN /\ response' = Respond("booking.destroy", id, cred, HTTP_404_NOT_FOUND, <<>>)
         /\ UNCHANGED <<users, userSeq, tokens, menu, menuSeq, bookings, bookingSeq>>
    ELSE /\ bookings' = DeleteRow(bookings, id)
         /\ response' = Respond("booking.destroy", id, cred, HTTP_204_NO_CONTENT, <<>>)
         /\ UNCHANGED <<users, userSeq, tokens, menu, menuSeq, bookingSeq>>

(***************************************************************************)
(* UserSerializer and the accounts.                                        *)
(***************************************************************************)
\* A mutant of UserSerializerFields: the password column is rendered too.
UserSerializerFieldsWithPassword == {"url", "username", "email", "groups", "password"}

\* Meta.fields of UserSerializer.
UserSerializerFields == {"url", "username", "email", "groups"}

UserFieldRender(f, id, row) ==
    CASE f = "url" -> [type |-> "url", view |-> "user-detail", pk |-> id]
      [] f = "username" -> Str(row.username)
      [] f = "email" -> Str(row.email)
      [] f = "groups" -> [type |-> "array", items |-> <<>>]
      [] f = "password" -> Str(row.password)

\* serializer.data: the rendered representation of a user.
UserSerializerData(id, row) ==
    [f \in UserSerializerFields |-> UserFieldRender(f, id, row)]

\* A mutant of UsernameTaken: no uniqueness check is made.
UsernameNeverTaken(name, self) == FALSE

\* The unique constraint of User.username: another row holds the name.
UsernameTaken(name, self) ==
    \E i \in DOMAIN users : i # self /\ users[i].username = name

\* serializer.errors: username is required (unless the update is partial),
\* not blank, and unique; email is optional.
UserSerializerErrors(data, partial, self) ==
    IF data.username.type = "missing"
    THEN (IF partial THEN <<>> ELSE <<[username |-> "This field is required."]>>)
    ELSE IF ~CharFieldValid(data.username)
    THEN <<[username |-> "This field may not be blank."]>>
    ELSE IF UsernameTaken(CharFieldClean(data.username), self)
    THEN <<[username |-> "A user with that username already exists."]>>
    ELSE <<>>

UserSerializerIsValid(data, partial, self) == UserSerializerErrors(data, partial, self) = <<>>

UserDefaults == [username |-> <<>>, email |-> <<>>, password |-> <<>>]

UserSerializerSave(instance, data) ==
    [username |-> IF data.username.type # "missing"
                  THEN CharFieldClean(data.username) ELSE instance.username,
     email |-> IF data.email.type # "missing"
               THEN CharFieldClean(data.email) ELSE instance.email,
     password |-> instance.password]

RECURSIVE UserListFrom(_, _)
UserListFrom(i, n) ==
    IF i > n THEN <<>>
    ELSE (IF i \in DOMAIN users THEN <<UserSerializerData(i, users[i])>> ELSE <<>>)
            \o UserListFrom(i + 1, n)

UserList == UserListFrom(1, userSeq - 1)

\* POST /auth/users/: sign-up with a password.
AuthUsersCreate(data) ==
    IF \/ ~UserSerializerIsValid(data, FALSE, 0)
       \/ data.password.type # "string"
       \/ data.password.chars = <<>>
    THEN /\ response' = Respond("auth.signup", 0, 0, HTTP_400_BAD_REQUEST,
                                UserSerializerErrors(data, FALSE, 0))
         /\ UNCHANGED <<users, userSeq, tokens, menu, menuSeq, bookings, bookingSeq>>
    ELSE /\ userSeq <= MaxUserId
         /\ LET row == [UserSerializerSave(UserDefaults, data)
                            EXCEPT !.password = data.password.chars]
            IN /\ users' = SaveRow(users, userSeq, row)
               /\ response' = Respond("auth.signup", userSeq, 0, HTTP_201_CREATED,
                                      <<[id |-> Num(userSeq, 0),
                                         username |-> Str(row.username),
                                         email |-> Str(row.email)]>>)
         /\ userSeq' = userSeq + 1
         /\ UNCHANGED <<tokens, menu, menuSeq, bookings, bookingSeq>>

\* POST /auth/token/login/: the token of the user whose credentials match.
AuthTokenLogin(username, password) ==
    LET match == {i \in DOMAIN users :
                    /\ users[i].username = username
                    /\ users[i].password = password
                    /\ password # <<>>}
    IN IF match = {}
       THEN /\ response' = Respond("auth.login", 0, 0, HTTP_400_BAD_REQUEST, <<>>)
            /\ UNCHANGED <<users, userSeq, tokens, menu, menuSeq, bookings, bookingSeq>>
       ELSE LET i == CHOOSE j \in match : TRUE
            IN /\ tokens' = tokens \cup {i}
               /\ response' = Respond("auth.login", i, 0, HTTP_200_OK,
                                      <<[auth_token |-> Num(i, 0)]>>)
               /\ UNCHANGED <<users, userSeq, menu, menuSeq, bookings, bookingSeq>>

(***************************************************************************)
(* UserViewSet: permission_classes = [IsAuthenticated].                    *)
(***************************************************************************)
UserDenied(op, id, cred) ==
    /\ response' = Respond(op, id, cred, HTTP_401_UNAUTHORIZED, <<>>)
    /\ UNCHANGED <<users, userSeq, tokens, menu, menuSeq, bookings, bookingSeq>>

UserViewSetList(cred) ==
    IF ~IsAuthenticated(cred) THEN UserDenied("user.list", 0, cred)
    ELSE /\ response' = Respond("user.list", 0, cred, HTTP_200_OK, UserList)
         /\ UNCHANGED <<users, userSeq, tokens, menu, menuSeq, bookings, bookingSeq>>

UserViewSetCreate(cred, data) ==
    IF ~IsAuthenticated(cred) THEN UserDenied("user.create", 0, cred)
    ELSE IF ~UserSerializerIsValid(data, FALSE, 0)
    THEN /\ response' = Respond("user.create", 0, cred, HTTP_400_BAD_REQUEST,
                                UserSerializerErrors(data, FALSE, 0))
         /\ UNCHANGED <<users, userSeq, tokens, menu, menuSeq, bookings, bookingSeq>>
    ELSE /\ userSeq <= MaxUserId
         /\ LET row == UserSerializerSave(UserDefaults, data)
            IN /\ users' = SaveRow(users, userSeq, row)
               /\ response' = Respond("user.create", userSeq, cred, HTTP_201_CREATED,
                                      <<UserSerializerData(userSeq, row)>>)
         /\ userSeq' = userSeq + 1
         /\ UNCHANGED <<tokens, menu, menuSeq, bookings, bookingSeq>>

UserViewSetRetrieve(cred, id) ==
    IF ~IsAuthenticated(cred) THEN UserDenied("user.retrieve", id, cred)
    ELSE /\ response' =
              IF id \in DOMAIN users
              THEN Respond("user.retrieve", id, cred, HTTP_200_OK,
                           <<UserSerializerData(id, users[id])>>)
              ELSE Respond("user.retrieve", id, cred, HTTP_404_NOT_FOUND, <<>>)
         /\ UNCHANGED <<users, userSeq, tokens, menu, menuSeq, bookings, bookingSeq>>

UserUpdateModel(op, cred, id, data, partial) ==
    IF ~IsAuthenticated(cred) THEN UserDenied(op, id, cred)
    ELSE IF id \notin DOMAIN users
    THEN /\ response' = Respond(op, id, cred, HTTP_404_NOT_FOUND, <<>>)
         /\ UNCHANGED <<users, userSeq, tokens, menu, menuSeq, bookings, bookingSeq>>
    ELSE IF ~UserSerializerIsValid(data, partial, id)
    THEN /\ response' = Respond(op, id, cred, HTTP_400_BAD_REQUEST,
                                UserSerializerErrors(data, partial, id))
         /\ UNCHANGED <<users, userSeq, tokens, menu, menuSeq, bookings, bookingSeq>>
    ELSE LET row == UserSerializerSave(users[id], data)
         IN /\ users' = SaveRow(users, id, row)
            /\ response' = Respond(op, id, cred, HTTP_200_OK,
                                   <<UserSerializerData(id, row)>>)
            /\ UNCHANGED <<userSeq, tokens, menu, menuSeq, bookings, bookingSeq>>

UserViewSetUpdate(cred, id, data) ==
    UserUpdateModel("user.update", cred, id, data, FALSE)

UserViewSetPartialUpdate(cred, id, data) ==
    UserUpdateModel("user.partial_update", cred, id, data, TRUE)

\* The user's token row goes with the user.
UserViewSetDestroy(cred, id) ==
    IF ~IsAuthenticated(cred) THEN UserDenied("user.destroy", id, cred)
    ELSE IF id \notin DOMAIN users
    THEN /\ response' = Respond("user.destroy", id, cred, HTTP_404_NOT_FOUND, <<>>)
         /\ UNCHANGED <<users, userSeq, tokens, menu, menuSeq, bookings, bookingSeq>>
    ELSE /\ users' = DeleteRow(users, id)
         /\ tokens' = tokens \ {id}
         /\ response' = Respond("user.destroy", id, cred, HTTP_204_NO_CONTENT, <<>>)
         /\ UNCHANGED <<userSeq, menu, menuSeq, bookings, bookingSeq>>

(***************************************************************************)
(* Request inputs.                                                         *)
(***************************************************************************)
\* The menu item that the other request bodies vary in one field.
BaseMenuItem == [title |-> Str(<<"a">>), price |-> Num(15, 1), inventory |-> Num(3, 0)]

TitleInputs ==
    {Str(<<"a">>), Str(<<" ", "a">>), Str(<<"b", " ">>), Str(<<>>), Str(<<" ">>), Missing}

PriceInputs ==
    {Num(15, 1), Num(150, 2), Str(<<"x">>), Num(-1, 0), Missing}

InventoryInputs ==
    {Num(3, 0), Num(5, 0), Num(30, 1), Num(15, 1), Str(<<"x">>), Num(-1, 0), Missing}

\* Full bodies: the base item with one field replaced.
MenuItemBodies ==
    {[BaseMenuItem EXCEPT !.title = v] : v \in TitleInputs}
        \cup {[BaseMenuItem EXCEPT !.price = v] : v \in PriceInputs}
        \cup {[BaseMenuItem EXCEPT !.inventory = v] : v \in InventoryInputs}

\* Bodies that hold a single field.
MenuItemPatches ==
    {[title |-> v, price |-> Missing, inventory |-> Missing] : v \in TitleInputs}
        \cup {[title |-> Missing, price |-> v, inventory |-> Missing] : v \in PriceInputs}
        \cup {[title |-> Missing, price |-> Missing, inventory |-> v] : v \in InventoryInputs}

BookingBodies ==
    {[name |-> Str(<<"Jane Smith">>), no_of_guests |-> Num(4, 0), booking_date |-> Missing],
     [name |-> Str(<<"John Doe">>), no_of_guests |-> Num(4, 0), booking_date |-> Str(IsoStamp)],
     [name |-> Str(<<"John Doe">>), no_of_guests |-> Num(0, 0), booking_date |-> Missing],
     [name |-> Missing, no_of_guests |-> Num(4, 0), booking_date |-> Missing]}

BookingPatches ==
    {[name |-> Str(<<"John Doe">>), no_of_guests |-> Missing, booking_date |-> Missing],
     [name |-> Missing, no_of_guests |-> Num(0, 0), booking_date |-> Missing]}

Usernames == {<<"script_user">>, <<"testuser">>}
Passwords == {<<"script_pass123">>, <<"testpass">>}

UserBodies ==
    {[username |-> Str(u), email |-> Missing] : u \in Usernames}
        \cup {[username |-> Str(<<>>), email |-> Missing],
              [username |-> Missing, email |-> Str(<<"script_user@domain.local">>)]}

SignupBodies ==
    {[username |-> Str(u), email |-> Str(<<"script_user@domain.local">>), password |-> Str(p)] :
        u \in Usernames, p \in Passwords}
        \cup {[username |-> Str(<<"script_user">>), email |-> Missing, password |-> Missing]}

(***************************************************************************)
(* Specifications.                                                         *)
(***************************************************************************)
\* The client script is not running.
ScriptIdle ==
    [pc |-> "idle", run |-> 0, auth_token |-> 0, items_count |-> 0, item |-> 0,
     calls |-> <<>>]

\* No partial update is in flight.
NoRequests == [r \in {} |-> <<>>]

\* Whether the authenticators of the deployment run on the views that ask
\* for no permission (MenuItemView, SingleMenuItemView), so that a token
\* that was never issued is refused there too.
Settings == [authenticate_everywhere : BOOLEAN]

DefaultSettings == [authenticate_everywhere |-> TRUE]

\* The state after the migrations: three empty tables.
Init ==
    /\ users = EmptyTable
    /\ userSeq = 1
    /\ tokens = {}
    /\ menu = EmptyTable
    /\ menuSeq = 1
    /\ bookings = EmptyTable
    /\ bookingSeq = 1
    /\ response = NoResponse
    /\ script = ScriptIdle
    /\ inflight = NoRequests
    /\ settings = DefaultSettings

\* The state after script_user has signed up and logged in.
InitLoggedIn ==
    /\ users = SaveRow(EmptyTable, 1,
                       [username |-> <<"script_user">>,
                        email |-> <<"script_user@domain.local">>,
                        password |-> <<"script_pass123">>])
    /\ userSeq = 2
    /\ tokens = {1}
    /\ menu = EmptyTable
    /\ menuSeq = 1
    /\ bookings = EmptyTable
    /\ bookingSeq = 1
    /\ response = NoResponse
    /\ script = ScriptIdle
    /\ inflight = NoRequests
    /\ settings = DefaultSettings

\* Requests to the menu endpoints come without credentials or with a token
\* that was issued.
MenuCredentials == {0} \cup tokens

NextAccounts ==
    \/ \E data \in SignupBodies : AuthUsersCreate(data)
    \/ \E u \in Usernames, p \in Passwords : AuthTokenLogin(u, p)

NextUsers ==
    \/ \E cred \in Credentials : UserViewSetList(cred)
    \/ \E cred \in Credentials, data \in UserBodies : UserViewSetCreate(cred, data)
    \/ \E cred \in Credentials, id \in 1 .. MaxUserId : UserViewSetRetrieve(cred, id)
    \/ \E cred \in Credentials, id \in 1 .. MaxUserId, data \in UserBodies :
            UserViewSetUpdate(cred, id, data)
    \/ \E cred \in Credentials, id \in 1 .. MaxUserId, data \in UserBodies :
            UserViewSetPartialUpdate(cred, id, data)
    \/ \E cred \in Credentials, id \in 1 .. MaxUserId : UserViewSetDestroy(cred, id)

NextMenu ==
    \/ \E cred \in MenuCredentials : MenuItemViewList(cred)
    \/ \E cred \in MenuCredentials, data \in MenuItemBodies : MenuItemViewCreate(cred, data)
    \/ \E cred \in MenuCredentials, id \in 1 .. MaxMenuId : SingleMenuItemViewRetrieve(cred, id)
    \/ \E cred \in MenuCredentials, id \in 1 .. MaxMenuId, data \in MenuItemBodies :
            SingleMenuItemViewUpdate(cred, id, data)
    \/ \E cred \in MenuCredentials, id \in 1 .. MaxMenuId, data \in MenuItemPatches :
            SingleMenuItemViewPartialUpdate(cred, id, data)
    \/ \E cred \in MenuCredentials, id \in 1 .. MaxMenuId : SingleMenuItemViewDestroy(cred, id)

NextBookings ==
    \/ \E cred \in Credentials : BookingViewSetList(cred)
    \/ \E cred \in Credentials, data \in BookingBodies : BookingViewSetCreate(cred, data)
    \/ \E cred \in Credentials, id \in 1 .. MaxBookingId : BookingViewSetRetrieve(cred, id)
    \/ \E cred \in Credentials, id \in 1 .. MaxBookingId, data \in BookingBodies :
            BookingViewSetUpdate(cred, id, data)
    \/ \E cred \in Credentials, id \in 1 .. MaxBookingId, data \in BookingPatches :
            BookingViewSetPartialUpdate(cred, id, data)
    \/ \E cred \in Credentials, id \in 1 .. MaxBookingId : BookingViewSetDestroy(cred, id)

\* MenuItem and Booking share no column, key or constraint, and no handler
\* of one reads the table of the other: a run of store requests is taken to
\* address one of the two tables.
NextStore ==
    \/ bookingSeq = 1 /\ NextMenu /\ UNCHANGED clientVars
    \/ menuSeq = 1 /\ NextBookings /\ UNCHANGED clientVars

\* The requests of callers other than the client script.
NextServer ==
    \/ NextAccounts /\ UNCHANGED clientVars
    \/ NextUsers /\ UNCHANGED clientVars
    \/ NextMenu /\ UNCHANGED clientVars
    \/ NextBookings /\ UNCHANGED clientVars

(***************************************************************************)
(* The client script (sample_code.py): one call after the other, each      *)
(* served by the back end before the next is made.                         *)
(***************************************************************************)
MaxRuns == 2

user_details ==
    [username |-> <<"script_user">>,
     password |-> <<"script_pass123">>,
     email |-> <<"script_user@domain.local">>]

menu_items ==
    <<[title |-> Str(<<"Spaghetti">>), price |-> Num(1050, 2), inventory |-> Num(20, 0)],
      [title |-> Str(<<"Cheeseburger">>), price |-> Num(899, 2), inventory |-> Num(15, 0)],
      [title |-> Str(<<"Caesar Salad">>), price |-> Num(725, 2), inventory |-> Num(10, 0)],
      [title |-> Str(<<"Grilled Salmon">>), price |-> Num(1475, 2), inventory |-> Num(8, 0)],
      [title |-> Str(<<"Chicken Tacos">>), price |-> Num(950, 2), inventory |-> Num(12, 0)]>>

booking_data ==
    [name |-> Str(<<"John Doe">>), no_of_guests |-> Num(4, 0), booking_date |-> Str(IsoStamp)]

\* The header "Token None" that a failed authentication leaves: a token
\* that was never issued.
TokenNone == MaxUserId + 1

\* GET /auth/users/me/: the profile of the caller.
AuthUsersMe(cred) ==
    /\ response' =
         IF IsAuthenticated(cred)
         THEN Respond("auth.me", cred, cred, HTTP_200_OK,
                      <<[id |-> Num(cred, 0),
                         username |-> Str(users[cred].username),
                         email |-> Str(users[cred].email)]>>)
         ELSE Respond("auth.me", 0, cred, HTTP_401_UNAUTHORIZED, <<>>)
    /\ UNCHANGED <<users, userSeq, tokens, menu, menuSeq, bookings, bookingSeq>>

\* The authenticators fail on a token that was never issued, where the
\* deployment runs them.
AuthenticationFailed(cred) ==
    settings.authenticate_everywhere /\ cred # 0 /\ cred \notin tokens

\* GET /restaurant/menu/ with an Authorization header.
MenuItemViewListAs(cred) ==
    IF AuthenticationFailed(cred)
    THEN /\ response' = Respond("menu.list", 0, cred, HTTP_401_UNAUTHORIZED, <<>>)
         /\ UNCHANGED <<users, userSeq, tokens, menu, menuSeq, bookings, bookingSeq>>
    ELSE MenuItemViewList(cred)

\* POST /restaurant/menu/ with an Authorization header.
MenuItemViewCreateAs(cred, data) ==
    IF AuthenticationFailed(cred)
    THEN /\ response' = Respond("menu.create", 0, cred, HTTP_401_UNAUTHORIZED, <<>>)
         /\ UNCHANGED <<users, userSeq, tokens, menu, menuSeq, bookings, bookingSeq>>
    ELSE MenuItemViewCreate(cred, data)

\* A mutant of ItemsCountIsZero: a failed count (-1) passes for an empty catalog.
ItemsCountNotPositive(items_count) == items_count <= 0

\* if items_count == 0
ItemsCountIsZero(items_count) == items_count = 0

\* A mutant of ScriptAfter: a call that fails ends the run, as if each
\* response went through raise_for_status().
ScriptAfterRaising(pc, status, items_count, item) ==
    IF status \notin 200 .. 299 THEN "done"
    ELSE CASE pc = "create_user_if_not_exists" -> "authenticate_user"
           [] pc = "authenticate_user" -> "get_current_user"
           [] pc = "get_current_user" -> "count_menu_items"
           [] pc = "count_menu_items" ->
                IF ItemsCountIsZero(items_count) THEN "create_menu_items"
                ELSE "add_a_table_booking"
           [] pc = "create_menu_items" ->
                IF item < Len(menu_items) THEN "create_menu_items"
                ELSE "count_menu_items_again"
           [] pc = "count_menu_items_again" -> "add_a_table_booking"
           [] pc = "add_a_table_booking" -> "list_bookings"
           [] pc = "list_bookings" -> "done"

\* The statement that follows a call in __main__: no status is looked at,
\* only the count of the menu.
ScriptAfter(pc, status, items_count, item) ==
    CASE pc = "create_user_if_not_exists" -> "authenticate_user"
      [] pc = "authenticate_user" -> "get_current_user"
      [] pc = "get_current_user" -> "count_menu_items"
      [] pc = "count_menu_items" ->
            IF ItemsCountIsZero(items_count) THEN "create_menu_items"
            ELSE "add_a_table_booking"
      [] pc = "create_menu_items" ->
            IF item < Len(menu_items) THEN "create_menu_items"
            ELSE "count_menu_items_again"
      [] pc = "count_menu_items_again" -> "add_a_table_booking"
      [] pc = "add_a_table_booking" -> "list_bookings"
      [] pc = "list_bookings" -> "done"

\* The call is logged and the script moves on.  arg is the index of the
\* item posted, or the count returned, and 0 for the other steps.
ScriptReturn(step, arg, auth_token, items_count) ==
    /\ script' = [script EXCEPT
            !.pc = ScriptAfter(script.pc, response'.status, items_count, script.item),
            !.auth_token = auth_token,
            !.items_count = items_count,
            !.item = IF script.pc = "count_menu_items" THEN 1
                     ELSE IF script.pc = "create_menu_items" THEN script.item + 1
                     ELSE script.item,
            !.calls = Append(script.calls,
                             [step |-> step, status |-> response'.status, arg |-> arg])]
    /\ UNCHANGED <<inflight, settings>>

create_user_if_not_exists ==
    /\ script.pc = "create_user_if_not_exists"
    /\ AuthUsersCreate([username |-> Str(user_details.username),
                        password |-> Str(user_details.password),
                        email |-> Str(user_details.email)])
    /\ ScriptReturn("create_user_if_not_exists", 0, script.auth_token, script.items_count)

authenticate_user ==
    /\ script.pc = "authenticate_user"
    /\ AuthTokenLogin(user_details.username, user_details.password)
    /\ ScriptReturn("authenticate_user", 0,
                    IF response'.status = HTTP_200_OK
                    THEN response'.body[1].auth_token.digits ELSE TokenNone,
                    script.items_count)

get_current_user ==
    /\ script.pc = "get_current_user"
    /\ AuthUsersMe(script.auth_token)
    /\ ScriptReturn("get_current_user", 0, script.auth_token, script.items_count)

\* Both calls of count_menu_items: before the bulk create and after it.
count_menu_items ==
    /\ script.pc \in {"count_menu_items", "count_menu_items_again"}
    /\ MenuItemViewListAs(script.auth_token)
    /\ LET items_count == IF response'.status = HTTP_200_OK
                          THEN Len(response'.body) ELSE -1
       IN ScriptReturn("count_menu_items", items_count, script.auth_token, items_count)

\* One turn of the loop of create_menu_items.
create_menu_items ==
    /\ script.pc = "create_menu_items"
    /\ MenuItemViewCreateAs(script.auth_token, menu_items[script.item])
    /\ ScriptReturn("create_menu_items", script.item, script.auth_token, script.items_count)

add_a_table_booking ==
    /\ script.pc = "add_a_table_booking"
    /\ BookingViewSetCreate(script.auth_token, booking_data)
    /\ ScriptReturn("add_a_table_booking", 0, script.auth_token, script.items_count)

list_bookings ==
    /\ script.pc = "list_bookings"
    /\ BookingViewSetList(script.auth_token)
    /\ ScriptReturn("list_bookings", 0, script.auth_token, script.items_count)

\* The first statement of a run.
ScriptStart(run) ==
    [pc |-> "create_user_if_not_exists", run |-> run, auth_token |-> 0,
     items_count |-> 0, item |-> 0, calls |-> <<>>]

\* The script is run again, after the run before it has ended.
ScriptRerun ==
    /\ script.pc = "done"
    /\ script.run < MaxRuns
    /\ script' = ScriptStart(script.run + 1)
    /\ UNCHANGED <<users, userSeq, tokens, menu, menuSeq, bookings, bookingSeq,
                   response, inflight, settings>>

ScriptStep ==
    \/ create_user_if_not_exists
    \/ authenticate_user
    \/ get_current_user
    \/ count_menu_items
    \/ create_menu_items
    \/ add_a_table_booking
    \/ list_bookings

NextScript == ScriptStep \/ ScriptRerun

\* The script is started against a back end where script_user is unknown,
\* known, or known under another password, and the catalog is empty or not.
InitScript ==
    /\ \E password \in {<<>>} \cup Passwords :
          /\ users = IF password = <<>> THEN EmptyTable
                     ELSE SaveRow(EmptyTable, 1,
                                  [username |-> user_details.username,
                                   email |-> user_details.email,
                                   password |-> password])
          /\ userSeq = IF password = <<>> THEN 1 ELSE 2
    /\ tokens = {}
    /\ \E n \in 0 .. 1 :
          /\ menu = IF n = 0 THEN EmptyTable
                    ELSE SaveRow(EmptyTable, 1,
                                 MenuItemSerializerSave(MenuItemDefaults, BaseMenuItem))
          /\ menuSeq = n + 1
    /\ bookings = EmptyTable
    /\ bookingSeq = 1
    /\ response = NoResponse
    /\ script = ScriptStart(1)
    /\ inflight = NoRequests
    /\ settings \in Settings

(***************************************************************************)
(* SingleMenuItemView.partial_update, request by request: each request is  *)
(* handled by a thread or process of its own, and the steps of a handler   *)
(* (UpdateModelMixin.update: get_object, is_valid, perform_update) are     *)
(* interleaved with the steps of the others.                               *)
(***************************************************************************)
\* The two requests of the server that are handled at the same time.
Requests == {1, 2}

\* The request is dispatched to its handler.
PartialUpdateReceive(r, id, data) ==
    /\ r \notin DOMAIN inflight
    /\ inflight' = SaveRow(inflight, r,
                           [pc |-> "get_object", id |-> id, data |-> data,
                            instance |-> MenuItemDefaults, status |-> 0])
    /\ UNCHANGED <<users, userSeq, tokens, menu, menuSeq, bookings, bookingSeq,
                   response, script, settings>>

\* instance = self.get_object(): the row is read into the handler's memory.
PartialUpdateGetObject(r) ==
    /\ r \in DOMAIN inflight
    /\ inflight[r].pc = "get_object"
    /\ IF ~MenuItemGetObject(inflight[r].id)
       THEN /\ response' = Respond("menu.partial_update", inflight[r].id, 0,
                                   HTTP_404_NOT_FOUND, <<>>)
            /\ inflight' = [inflight EXCEPT ![r].pc = "done",
                                            ![r].status = HTTP_404_NOT_FOUND]
       ELSE /\ inflight' = [inflight EXCEPT ![r].pc = "is_valid",
                                            ![r].instance = menu[inflight[r].id]]
            /\ UNCHANGED response
    /\ UNCHANGED <<users, userSeq, tokens, menu, menuSeq, bookings, bookingSeq,
                   script, settings>>

\* serializer.is_valid(raise_exception=True), with partial=True.
PartialUpdateIsValid(r) ==
    /\ r \in DOMAIN inflight
    /\ inflight[r].pc = "is_valid"
    /\ IF ~MenuItemSerializerIsValid(inflight[r].data, TRUE)
       THEN /\ response' = Respond("menu.partial_update", inflight[r].id, 0,
                                   HTTP_400_BAD_REQUEST, <<>>)
            /\ inflight' = [inflight EXCEPT ![r].pc = "done",
                                            ![r].status = HTTP_400_BAD_REQUEST]
       ELSE /\ inflight' = [inflight EXCEPT ![r].pc = "perform_update"]
            /\ UNCHANGED response
    /\ UNCHANGED <<users, userSeq, tokens, menu, menuSeq, bookings, bookingSeq,
                   script, settings>>

\* self.perform_update(serializer): serializer.save() sets the validated
\* fields on the instance it read and instance.save() writes the row, every
\* column of it, under its primary key.
PartialUpdatePerformUpdate(r) ==
    /\ r \in DOMAIN inflight
    /\ inflight[r].pc = "perform_update"
    /\ LET row == MenuItemSerializerSave(inflight[r].instance, inflight[r].data)
       IN /\ menu' = SaveRow(menu, inflight[r].id, row)
          /\ response' = Respond("menu.partial_update", inflight[r].id, 0, HTTP_200_OK,
                                 <<MenuItemSerializerData(row)>>)
    /\ inflight' = [inflight EXCEPT ![r].pc = "done", ![r].status = HTTP_200_OK]
    /\ UNCHANGED <<users, userSeq, tokens, menuSeq, bookings, bookingSeq,
                   script, settings>>

NextPartialUpdates ==
    \/ \E r \in Requests, id \in 1 .. MaxMenuId, data \in MenuItemPatches :
            PartialUpdateReceive(r, id, data)
    \/ \E r \in Requests : PartialUpdateGetObject(r)
    \/ \E r \in Requests : PartialUpdateIsValid(r)
    \/ \E r \in Requests : PartialUpdatePerformUpdate(r)

\* The catalog holds the first item of the script's list.
InitPartialUpdates ==
    /\ users = EmptyTable
    /\ userSeq = 1
    /\ tokens = {}
    /\ menu = SaveRow(EmptyTable, 1, MenuItemSerializerSave(MenuItemDefaults, menu_items[1]))
    /\ menuSeq = 2
    /\ bookings = EmptyTable
    /\ bookingSeq = 1
    /\ response = NoResponse
    /\ script = ScriptIdle
    /\ inflight = NoRequests
    /\ settings = DefaultSettings

Next == NextServer \/ NextScript \/ NextPartialUpdates

\* The whole back end, from the empty database.
Spec == Init /\ [][Next]_vars

\* The accounts: sign-up, login and the User resource.
SpecUsers ==
    Init /\ [][\/ NextAccounts /\ UNCHANGED clientVars
               \/ NextUsers /\ UNCHANGED clientVars]_vars

\* The MenuItem and Booking resources, called by script_user and by
\* callers without a valid token.
SpecStore == InitLoggedIn /\ [][NextStore]_vars

\* Runs of the client script, one after the other, against the back end.
\* The interpreter runs a statement that can run: the steps are weakly fair.
SpecScript == InitScript /\ [][NextScript]_vars /\ WF_vars(ScriptStep)

\* Two partial updates of menu items, handled at the same time.
SpecPartialUpdates == InitPartialUpdates /\ [][NextPartialUpdates]_vars

(***************************************************************************)
(* Properties.                                                             *)
(***************************************************************************)
BookingOps ==
    {"booking.list", "booking.create", "booking.retrieve", "booking.update",
     "booking.partial_update", "booking.destroy"}

\* C1: every request to a booking endpoint (list, create, retrieve, update,
\* partial_update, destroy) that carries no valid identity is answered 401,
\* and the step that serves it leaves the Booking table as it was.
C1_UnauthenticatedBookingDenied ==
    /\ [](response.op \in BookingOps /\ ~response.auth
            => response.status = HTTP_401_UNAUTHORIZED)
    /\ [][response'.op \in BookingOps /\ ~response'.auth
            => bookings' = bookings /\ bookingSeq' = bookingSeq]_vars

\* A booking exists and an unauthenticated create has just been refused.
C1_Witness ==
    /\ response.op = "booking.create"
    /\ ~response.auth
    /\ response.status = HTTP_401_UNAUTHORIZED
    /\ bookings # EmptyTable

\* The ids that a table handed out and no longer holds.
Deleted(table, seq) == {i \in 1 .. (seq - 1) : i \notin DOMAIN table}

\* C2: after a delete answered 204 the row of that id is gone; an id that
\* is gone stays gone whatever requests follow; and a retrieve of it is
\* answered 404 (for a booking, when the caller is authenticated).
C2_DeletedStaysNotFound ==
    /\ [](/\ response.op = "menu.destroy" /\ response.status = HTTP_204_NO_CONTENT
                => response.id \in Deleted(menu, menuSeq)
          /\ response.op = "booking.destroy" /\ response.status = HTTP_204_NO_CONTENT
                => response.id \in Deleted(bookings, bookingSeq)
          /\ response.op = "menu.retrieve" /\ response.id \in Deleted(menu, menuSeq)
                => response.status = HTTP_404_NOT_FOUND
          /\ response.op = "booking.retrieve" /\ response.auth
                /\ response.id \in Deleted(bookings, bookingSeq)
                => response.status = HTTP_404_NOT_FOUND)
    /\ [][/\ Deleted(menu, menuSeq) \subseteq Deleted(menu', menuSeq')
          /\ Deleted(bookings, bookingSeq) \subseteq Deleted(bookings', bookingSeq')]_vars

\* Item 1 was deleted, item 2 was created since, and a retrieve of item 1
\* has just been answered 404.
C2_Witness ==
    /\ response.op = "menu.retrieve"
    /\ response.id = 1
    /\ response.status = HTTP_404_NOT_FOUND
    /\ 1 \in Deleted(menu, menuSeq)
    /\ 2 \in DOMAIN menu

\* t is s without its leading and trailing spaces.
IsTrimOf(t, s) ==
    \E i \in 1 .. (Len(s) + 1), j \in 0 .. Len(s) :
        /\ t = SubSeq(s, i, j)
        /\ \A k \in 1 .. Len(s) : (k < i \/ k > j) => s[k] = " "
        /\ t # <<>> => t[1] # " " /\ t[Len(t)] # " "

\* C3 as stated: a created item is retrieved with the title, price and
\* inventory that the payload held.
C3_RoundTripIdentical ==
    [][response'.op = "menu.create" /\ response'.status = HTTP_201_CREATED
        => \A cred \in MenuCredentials, data \in MenuItemBodies :
            MenuItemViewCreate(cred, data)
            => LET got == MenuItemSerializerData(menu'[response'.id])
               IN /\ got.title = data.title
                  /\ SameNumber(got.price, data.price)
                  /\ SameNumber(got.inventory, data.inventory)]_vars

\* C3, amended: a created item is retrieved with the payload's title less its
\* leading and trailing whitespace, and with a price and an inventory of the
\* same numeric value as the payload's.
C3_RoundTripTrimmed ==
    [][response'.op = "menu.create" /\ response'.status = HTTP_201_CREATED
        => \A cred \in MenuCredentials, data \in MenuItemBodies :
            MenuItemViewCreate(cred, data)
            => LET got == MenuItemSerializerData(menu'[response'.id])
               IN /\ got.title.type = "string"
                  /\ IsTrimOf(got.title.chars, data.title.chars)
                  /\ SameNumber(got.price, data.price)
                  /\ SameNumber(got.inventory, data.inventory)]_vars

\* An item whose title was sent as "b " has been retrieved as "b".
C3_Witness ==
    /\ response.op = "menu.retrieve"
    /\ response.status = HTTP_200_OK
    /\ response.body[1].title = Str(<<"b">>)

\* v is a JSON number whose value is a whole number >= 0.
IsNonNegativeInteger(v) ==
    /\ v.type = "number"
    /\ v.digits >= 0
    /\ \E n \in 0 .. v.digits : SameNumber(v, Num(n, 0))

\* A request body that holds the inventory alone.
InventoryOnly(v) == [title |-> Missing, price |-> Missing, inventory |-> v]

\* C4: a PATCH of an existing item whose body holds only a (well-formed)
\* inventory is answered 200, sets the item's inventory to that value and
\* leaves its title, its price and every other row as they were.
C4_PatchInventoryOnly ==
    [][response'.op = "menu.partial_update" /\ response'.id \in DOMAIN menu
        => \A cred \in MenuCredentials, v \in InventoryInputs :
            /\ IsNonNegativeInteger(v)
            /\ SingleMenuItemViewPartialUpdate(cred, response'.id, InventoryOnly(v))
            => LET id == response'.id
               IN /\ response'.status = HTTP_200_OK
                  /\ DOMAIN menu' = DOMAIN menu
                  /\ SameNumber(Num(menu'[id].inventory, 0), v)
                  /\ menu'[id].title = menu[id].title
                  /\ menu'[id].price = menu[id].price
                  /\ \A other \in DOMAIN menu \ {id} : menu'[other] = menu[other]]_vars

\* Item 1, titled "b" with inventory 3, has been patched to inventory 5
\* next to an item 2.
C4_Witness ==
    /\ response.op = "menu.partial_update"
    /\ response.status = HTTP_200_OK
    /\ response.id = 1
    /\ DOMAIN menu = {1, 2}
    /\ menu[1].title = <<"b">>
    /\ menu[1].inventory = 5
    /\ menu[2].inventory = 3

\* The position of id among the ids of a table, in ascending order.
Rank(table, id) == Cardinality({j \in DOMAIN table : j <= id})

\* C5: a list of the menu (or, for an authenticated caller, of the bookings)
\* is answered 200 with one entry per row that was created and not deleted,
\* in insertion order; a row enters the table only by a create answered 201,
\* under an id above every id handed out before, and leaves it only by a
\* delete answered 204.
C5_ListIsCreatedMinusDeleted ==
    /\ [](/\ response.op = "menu.list"
                => /\ response.status = HTTP_200_OK
                   /\ Len(response.body) = Cardinality(DOMAIN menu)
                   /\ \A i \in DOMAIN menu :
                        response.body[Rank(menu, i)] = MenuItemSerializerData(menu[i])
          /\ response.op = "booking.list" /\ response.auth
                => /\ response.status = HTTP_200_OK
                   /\ Len(response.body) = Cardinality(DOMAIN bookings)
                   /\ \A i \in DOMAIN bookings :
                        response.body[Rank(bookings, i)]
                            = BookingSerializerData(i, bookings[i]))
    /\ [][/\ DOMAIN menu' =
                IF response'.op = "menu.create" /\ response'.status = HTTP_201_CREATED
                THEN DOMAIN menu \cup {response'.id}
                ELSE IF response'.op = "menu.destroy"
                        /\ response'.status = HTTP_204_NO_CONTENT
                THEN DOMAIN menu \ {response'.id}
                ELSE DOMAIN menu
          /\ DOMAIN bookings' =
                IF response'.op = "booking.create" /\ response'.status = HTTP_201_CREATED
                THEN DOMAIN bookings \cup {response'.id}
                ELSE IF response'.op = "booking.destroy"
                        /\ response'.status = HTTP_204_NO_CONTENT
                THEN DOMAIN bookings \ {response'.id}
                ELSE DOMAIN bookings
          /\ response'.op = "menu.create" /\ response'.status = HTTP_201_CREATED
                => \A i \in DOMAIN menu \cup Deleted(menu, menuSeq) : i < response'.id
          /\ response'.op = "booking.create" /\ response'.status = HTTP_201_CREATED
                => \A i \in DOMAIN bookings \cup Deleted(bookings, bookingSeq) :
                        i < response'.id]_vars

\* Two different items have been created and listed, in that order.
C5_Witness ==
    /\ response.op = "menu.list"
    /\ Len(response.body) = 2
    /\ response.body[1].inventory = Num(3, 0)
    /\ response.body[2].inventory = Num(5, 0)

\* The body names a user that the table holds.
NamesExistingUser(data) ==
    /\ data.username.type = "string"
    /\ \E i \in DOMAIN users : users[i].username = data.username.chars

\* The step is a sign-up, or a create on the User resource by an
\* authenticated caller, that may have carried the name of an existing user.
DuplicateUserCreate ==
    \/ /\ response'.op = "auth.signup"
       /\ \E data \in SignupBodies : NamesExistingUser(data) /\ AuthUsersCreate(data)
    \/ /\ response'.op = "user.create"
       /\ \E data \in UserBodies :
            /\ NamesExistingUser(data)
            /\ \E cred \in tokens : UserViewSetCreate(cred, data)

DuplicateUsernameError == <<[username |-> "A user with that username already exists."]>>

\* C6: no two users share a username; a sign-up, or a create on the User
\* resource by an authenticated caller, that names an existing user is
\* answered 400 with the duplicate-username error and leaves the User table
\* as it was.
C6_UsernamesUnique ==
    /\ [](\A i, j \in DOMAIN users : users[i].username = users[j].username => i = j)
    /\ [][\/ /\ response'.status = HTTP_400_BAD_REQUEST
             /\ response'.body = DuplicateUsernameError
             /\ users' = users
             /\ userSeq' = userSeq
          \/ ~DuplicateUserCreate]_vars

\* A second sign-up as the one existing user has just been refused.
C6_Witness ==
    /\ response.op = "auth.signup"
    /\ response.status = HTTP_400_BAD_REQUEST
    /\ response.body = DuplicateUsernameError
    /\ Cardinality(DOMAIN users) = 1

\* The body has a missing or empty title, a price that is no decimal >= 0,
\* or an inventory that is no whole number >= 0.
Malformed(data) ==
    \/ data.title.type = "missing"
    \/ data.title.type = "string" /\ data.title.chars = <<>>
    \/ data.price.type # "number"
    \/ data.price.type = "number" /\ data.price.digits < 0
    \/ ~IsNonNegativeInteger(data.inventory)

\* The body has a title that is not blank, a price that is a decimal >= 0
\* and an inventory that is a whole number >= 0.
WellFormed(data) ==
    /\ data.title.type = "string"
    /\ \E k \in 1 .. Len(data.title.chars) : data.title.chars[k] # " "
    /\ data.price.type = "number"
    /\ data.price.digits >= 0
    /\ IsNonNegativeInteger(data.inventory)

\* The step is a create that may have carried a malformed body.
MalformedCreate ==
    /\ response'.op = "menu.create"
    /\ \E data \in MenuItemBodies :
        /\ Malformed(data)
        /\ \E cred \in MenuCredentials : MenuItemViewCreate(cred, data)

\* The step is a full update that may have carried a malformed body.
MalformedUpdate ==
    /\ response'.op = "menu.update"
    /\ \E data \in MenuItemBodies :
        /\ Malformed(data)
        /\ \E cred \in MenuCredentials : SingleMenuItemViewUpdate(cred, response'.id, data)

\* The step was answered with the status and left the MenuItem table alone.
RefusedWith(status) ==
    /\ response'.status = status
    /\ menu' = menu
    /\ menuSeq' = menuSeq

\* C7 as stated: a create or an update with a malformed body is answered 400
\* and leaves the MenuItem table as it was.
C7_MalformedIs400 ==
    [][RefusedWith(HTTP_400_BAD_REQUEST) \/ ~(MalformedCreate \/ MalformedUpdate)]_vars

\* C7, amended: a create, or an update of an existing item, with a malformed
\* body is answered 400; an update of an unknown id with such a body is
\* answered 404; each leaves the MenuItem table as it was.
C7_MalformedIs400OrNotFound ==
    [][RefusedWith(IF response'.op = "menu.update" /\ response'.id \notin DOMAIN menu
                   THEN HTTP_404_NOT_FOUND ELSE HTTP_400_BAD_REQUEST)
        \/ ~(MalformedCreate \/ MalformedUpdate)]_vars

\* An update of an existing item has just been refused as malformed.
C7_Witness ==
    /\ response.op = "menu.update"
    /\ response.status = HTTP_400_BAD_REQUEST
    /\ response.id \in DOMAIN menu

DetailOps(resource) ==
    {resource \o ".retrieve", resource \o ".update", resource \o ".partial_update",
     resource \o ".destroy"}

\* C8: a retrieve, update, partial_update or delete of a menu item (or, by an
\* authenticated caller, of a booking) whose id matches no row is answered
\* 404 and leaves the table as it was: no row is created for the id.
C8_UnknownIdNotFound ==
    [][/\ response'.op \in DetailOps("menu") /\ response'.id \notin DOMAIN menu
            => /\ response'.status = HTTP_404_NOT_FOUND
               /\ menu' = menu
               /\ menuSeq' = menuSeq
       /\ response'.op \in DetailOps("booking") /\ response'.auth
            /\ response'.id \notin DOMAIN bookings
            => /\ response'.status = HTTP_404_NOT_FOUND
               /\ bookings' = bookings
               /\ bookingSeq' = bookingSeq]_vars

\* An update of an id that was never handed out has just been answered 404
\* next to an existing item.
C8_Witness ==
    /\ response.op = "menu.update"
    /\ response.status = HTTP_404_NOT_FOUND
    /\ response.id >= menuSeq
    /\ menu # EmptyTable

\* C9 as stated: a create on the menu endpoint without a valid token is
\* rejected and adds no row, while a list needs no authentication.
C9_MenuCreateNeedsToken ==
    /\ response.op = "menu.create" /\ ~response.auth
            => response.status \notin {HTTP_200_OK, HTTP_201_CREATED}
    /\ response.op = "menu.list" => response.status = HTTP_200_OK

\* C9, amended: the menu endpoint asks for no token.  A create without
\* credentials is answered 201 and adds the item when the body is well
\* formed, and 400, adding nothing, when it is not; a list without
\* credentials is answered 200.
C9_MenuOpenToAnonymous ==
    /\ [](response.op = "menu.list" => response.status = HTTP_200_OK)
    /\ [][response'.op = "menu.create" /\ ~response'.auth
            => \A data \in MenuItemBodies :
                MenuItemViewCreate(0, data)
                => IF WellFormed(data)
                   THEN /\ response'.status = HTTP_201_CREATED
                        /\ DOMAIN menu' = DOMAIN menu \cup {response'.id}
                        /\ response'.id \notin DOMAIN menu
                   ELSE /\ response'.status = HTTP_400_BAD_REQUEST
                        /\ menu' = menu]_vars

\* A caller without credentials has just created a menu item.
C9_Witness ==
    /\ response.op = "menu.create"
    /\ ~response.auth
    /\ response.status = HTTP_201_CREATED
    /\ menu # EmptyTable

UserOps ==
    {"user.list", "user.create", "user.retrieve", "user.update", "user.partial_update"}

\* C10: every representation that the User resource renders holds the keys
\* url, username, email and groups and no other, and none of its values is
\* the password of the user it renders.
C10_PasswordNeverRendered ==
    response.op \in UserOps /\ response.status \in {HTTP_200_OK, HTTP_201_CREATED}
        => \A k \in 1 .. Len(response.body) :
            LET repr == response.body[k]
            IN /\ DOMAIN repr = {"url", "username", "email", "groups"}
               /\ repr.url.pk \in DOMAIN users
               /\ \A f \in {"username", "email"} :
                    repr[f].chars # users[repr.url.pk].password
                        \/ users[repr.url.pk].password = <<>>

\* Two users with different passwords have just been listed.
C10_Witness ==
    /\ response.op = "user.list"
    /\ response.status = HTTP_200_OK
    /\ Len(response.body) = 2
    /\ DOMAIN users = {1, 2}
    /\ users[1].password # <<>>
    /\ users[2].password # <<>>
    /\ users[1].password # users[2].password

\* The steps of the calls the script has made, in the order it made them.
StepsCalled == [i \in 1 .. Len(script.calls) |-> script.calls[i].step]

IsPrefix(s, t) == Len(s) <= Len(t) /\ s = SubSeq(t, 1, Len(s))

Failed(call) == call.status \notin 200 .. 299

BeforeBulkCreate ==
    <<"create_user_if_not_exists", "authenticate_user", "get_current_user",
      "count_menu_items">>

BulkCreate == [i \in 1 .. Len(menu_items) |-> "create_menu_items"]

AfterBulkCreate == <<"add_a_table_booking", "list_bookings">>

\* The order of the claim: the count of the menu is a step before the bulk
\* create only.
OrderOfSteps ==
    {BeforeBulkCreate \o AfterBulkCreate,
     BeforeBulkCreate \o BulkCreate \o AfterBulkCreate}

\* The order of __main__: the bulk create is followed by a second count.
OrderOfCalls ==
    {BeforeBulkCreate \o AfterBulkCreate,
     BeforeBulkCreate \o BulkCreate \o <<"count_menu_items">> \o AfterBulkCreate}

\* C11, as stated: a run of the script has made its steps in the order
\* create-user, authenticate, fetch-profile, count-menu, (bulk-create),
\* add-booking, list-bookings, each of them exactly once, whatever the
\* responses were.
C11_StepsOnceInOrder ==
    script.pc = "done" => StepsCalled \in OrderOfSteps

\* C11, amended: the calls of a run are made in the fixed order create-user,
\* authenticate, fetch-profile, count-menu, (the five posts of the bulk
\* create and a second count-menu), add-booking, list-bookings; a response
\* that is not 2xx, a failed authentication included, is followed by the
\* next call of that order (no retry, no abort); every call of the order is
\* made exactly once, and the run ends.
C11_CallsOnceInOrder ==
    /\ [](\E order \in OrderOfCalls : IsPrefix(StepsCalled, order))
    /\ [](script.pc = "done" => StepsCalled \in OrderOfCalls)
    /\ []<>(script.pc = "done")

\* A run has ended in which the authentication failed and every later call
\* was made all the same, the bulk create and the second count among them.
C11_Witness ==
    /\ script.pc = "done"
    /\ Failed(script.calls[2])
    /\ StepsCalled = BeforeBulkCreate \o BulkCreate \o <<"count_menu_items">>
                        \o AfterBulkCreate
    /\ Failed(script.calls[Len(script.calls)])

IsPost(call) == call.step = "create_menu_items"

\* The indices in menu_items of the items the run has posted, in the order
\* of the posts.
ItemsPosted ==
    LET posts == SelectSeq(script.calls, IsPost)
    IN [i \in 1 .. Len(posts) |-> posts[i].arg]

\* The run has counted the menu (its fourth call) and found it empty.
CountedEmpty ==
    /\ script.calls[4].status = HTTP_200_OK
    /\ script.calls[4].arg = 0

\* C12: the script bulk-creates the five-item menu list if and only if the
\* catalog is empty when counted.  The count is the number of rows of the
\* catalog when the request succeeds and -1 when it fails; a run whose
\* count succeeded with 0 posts each of the five items once, in the order
\* of the list, and a run whose count was positive or failed posts none; so
\* a row is added to the catalog only by a run that counted it empty, and a
\* run against a populated catalog leaves the catalog as it is.
C12_BulkCreateIffEmpty ==
    /\ [](Len(script.calls) >= 4 =>
            /\ IsPrefix(ItemsPosted,
                        IF CountedEmpty THEN [i \in 1 .. Len(menu_items) |-> i] ELSE <<>>)
            /\ script.pc = "done" /\ CountedEmpty => Len(ItemsPosted) = Len(menu_items))
    /\ [][script.pc = "count_menu_items" /\ script'.pc # script.pc =>
            script'.calls[4].arg = IF response'.status = HTTP_200_OK
                                   THEN Cardinality(DOMAIN menu) ELSE -1]_vars
    /\ [][menu' # menu =>
            /\ script.pc = "create_menu_items"
            /\ CountedEmpty
            /\ Cardinality(DOMAIN menu) = script.item - 1]_vars

\* The second run of the script has ended: it counted the five items that
\* the first run created, posted none, and the catalog still holds the five.
C12_Witness ==
    /\ script.run = 2
    /\ script.pc = "done"
    /\ script.calls[4].status = HTTP_200_OK
    /\ script.calls[4].arg = Len(menu_items)
    /\ ItemsPosted = <<>>
    /\ Cardinality(DOMAIN menu) = Len(menu_items)
    /\ \A i \in 1 .. Len(menu_items) : menu[i].title = menu_items[i].title.chars

\* A request body that holds the price alone.
PriceOnly(v) == [title |-> Missing, price |-> v, inventory |-> Missing]

\* C13: when a partial update that changes only the inventory and a partial
\* update that changes only the price of the same MenuItem row have both been
\* answered 200, in whatever order their steps were taken, the row carries
\* the inventory of the one and the price of the other.
C13_NoLostUpdate ==
    \A r \in DOMAIN inflight, q \in DOMAIN inflight :
        /\ r # q
        /\ inflight[r].status = HTTP_200_OK
        /\ inflight[q].status = HTTP_200_OK
        /\ inflight[r].id = inflight[q].id
        /\ \E v \in InventoryInputs \ {Missing} : inflight[r].data = InventoryOnly(v)
        /\ \E v \in PriceInputs \ {Missing} : inflight[q].data = PriceOnly(v)
        => /\ menu[inflight[r].id].inventory = InventoryClean(inflight[r].data.inventory)
           /\ menu[inflight[q].id].price = PriceClean(inflight[q].data.price)

====
